---- MODULE Spec2Model ----
(***************************************************************************)
(* prompt_toolkit/formatted_text/base.py: to_formatted_text, Template and  *)
(* merge_formatted_text, over an explicit universe of Python values.       *)
(*                                                                         *)
(* A Python str is the sequence of its characters, so that concatenation,  *)
(* str.split and str.format are computed and not assumed.  A list carries  *)
(* the identity of the object (id) beside its items: NewId is the identity *)
(* of a list allocated during the call, CallerId that of a list the caller *)
(* (or one of its producers or objects) holds.                             *)
(***************************************************************************)
EXTENDS Integers, Sequences, FiniteSets, TLC

VARIABLES
    pc,            \* the operation that produced the current state
    value,         \* to_formatted_text: the `value` argument
    style,         \* to_formatted_text: the `style` argument (characters)
    auto_convert,  \* to_formatted_text: the `auto_convert` argument
    outcome,       \* what the last call returned or raised
    text,          \* Template.text
    closure,       \* the producer returned by Template.format / merge_formatted_text
    clock,         \* mutable environment read by the producer ClockFn
    consumed       \* how many items a single-use iterable given to merge_formatted_text has yielded

vars == <<pc, value, style, auto_convert, outcome, text, closure, clock, consumed>>

---------------------------------------------------------------------------
(* Bounds of the model. *)
MaxLen == 2      \* longest run list handed to to_formatted_text
MaxDepth == 2    \* deepest nesting of producers / self-describing objects
MaxArgs == 2     \* most arguments of Template.format
MaxItems == 2    \* most items of merge_formatted_text
MaxClock == 2    \* the environment takes the values 0..MaxClock

---------------------------------------------------------------------------
(* Python values. *)
NewId == "new"
CallerId == "caller"

None == [kind |-> "None"]
PyStr(s) == [kind |-> "str", s |-> s]
PyInt(n) == [kind |-> "int", n |-> n]
PyTuple(items) == [kind |-> "tuple", items |-> items]
PyList(id, items) == [kind |-> "list", ft |-> FALSE, id |-> id, items |-> items]
FormattedText(id, items) == [kind |-> "list", ft |-> TRUE, id |-> id, items |-> items]
\* an object whose __pt_formatted_text__() returns ret
Magic(ret) == [kind |-> "magic", ret |-> ret]
\* a zero-argument function returning ret
Callable(ret) == [kind |-> "callable", ret |-> ret]
\* a zero-argument function returning the environment's clock as text
ClockFn == [kind |-> "clockfn"]
\* a mouse handler: opaque third field of a run
Handler == [kind |-> "handler"]

(* What a call does: returns val, or raises exc (about: the value the     *)
(* message reports).  calls: the user code (producers and                 *)
(* __pt_formatted_text__ methods) the call invoked, in order.             *)
Return(v, calls) == [exc |-> "", about |-> None, val |-> v, calls |-> calls]
Raise(e, about, calls) == [exc |-> e, about |-> about, val |-> None, calls |-> calls]
\* results of the helpers below: a TLA+ value or an exception name
Ok(x) == [exc |-> "", x |-> x]
Err(e) == [exc |-> e, x |-> <<>>]

Digit(d) == <<"0", "1", "2", "3", "4", "5", "6", "7", "8", "9">>[d + 1]

RECURSIVE Digits(_)
Digits(n) == IF n < 10 THEN <<Digit(n)>> ELSE Digits(n \div 10) \o <<Digit(n % 10)>>

\* format with a fault: the sign is lost
format_Unsigned(v) == IF v.n < 0 THEN Digits(0 - v.n) ELSE Digits(v.n)

\* '{}'.format(v) for an int
format(v) == IF v.n < 0 THEN <<"-">> \o Digits(0 - v.n) ELSE Digits(v.n)

isinstance_str(v) == v.kind = "str"
isinstance_list(v) == v.kind = "list"
isinstance_FormattedText(v) == v.kind = "list" /\ v.ft
hasattr_pt_formatted_text(v) == v.kind = "magic"
callable(v) == v.kind \in {"callable", "clockfn"}

\* value(): the producer's return value
Call(f) == IF f.kind = "clockfn" THEN PyStr(format(PyInt(clock))) ELSE f.ret

\* iter(x): the items iteration yields, or TypeError
Iter(x) ==
    CASE x.kind \in {"list", "tuple"} -> Ok(x.items)
      [] x.kind = "str" -> Ok([i \in 1..Len(x.s) |-> PyStr(<<x.s[i]>>)])
      [] OTHER -> Err("TypeError")

\* x[i] for a zero-based i
GetItem(x, i) ==
    CASE x.kind \in {"list", "tuple"} ->
            IF i < Len(x.items) THEN Ok(x.items[i + 1]) ELSE Err("IndexError")
      [] x.kind = "str" ->
            IF i < Len(x.s) THEN Ok(PyStr(<<x.s[i + 1]>>)) ELSE Err("IndexError")
      [] OTHER -> Err("TypeError")

\* x[1:]
Slice1(x) ==
    CASE x.kind = "tuple" -> Ok(PyTuple(SubSeq(x.items, 2, Len(x.items))))
      [] x.kind = "list" -> Ok(PyList(NewId, SubSeq(x.items, 2, Len(x.items))))
      [] x.kind = "str" -> Ok(PyStr(SubSeq(x.s, 2, Len(x.s))))
      [] OTHER -> Err("TypeError")

\* k, v = item
Unpack2(item) ==
    LET it == Iter(item)
    IN  IF it.exc # "" THEN it
        ELSE IF Len(it.x) # 2 THEN Err("ValueError")
        ELSE it

---------------------------------------------------------------------------
(* to_formatted_text *)

\* assert_first with a fault: only value[0][0] is asserted
assert_first_StyleOnly(v) ==
    LET f0 == GetItem(v.items[1], 0)
    IN  IF f0.exc # "" THEN Raise(f0.exc, None, <<>>)
        ELSE IF ~isinstance_str(f0.x) THEN Raise("AssertionError", f0.x, <<>>)
        ELSE Return(v, <<>>)

\* lines 58-62: the two asserts on value[0]; "" when they pass
assert_first(v) ==
    LET first == v.items[1]
        f0 == GetItem(first, 0)
        f1 == GetItem(first, 1)
    IN  IF f0.exc # "" THEN Raise(f0.exc, None, <<>>)
        ELSE IF ~isinstance_str(f0.x) THEN Raise("AssertionError", f0.x, <<>>)
        ELSE IF f1.exc # "" THEN Raise(f1.exc, None, <<>>)
        ELSE IF ~isinstance_str(f1.x) THEN Raise("AssertionError", f1.x, <<>>)
        ELSE Return(v, <<>>)

\* lines 53-73 without the producer branch: the local `result`, or the exception
Dispatch(v, ac) ==
    IF v.kind = "None" THEN Return(PyList(NewId, <<>>), <<>>)
    ELSE IF isinstance_str(v) THEN Return(PyList(NewId, <<PyTuple(<<PyStr(<<>>), v>>)>>), <<>>)
    ELSE IF isinstance_list(v) THEN
        IF Len(v.items) > 0 THEN assert_first(v) ELSE Return(v, <<>>)
    ELSE IF hasattr_pt_formatted_text(v) THEN Return(v.ret, <<v>>)
    ELSE IF ac THEN Return(PyList(NewId, <<PyTuple(<<PyStr(<<>>), PyStr(format(v))>>)>>), <<>>)
    ELSE Raise("ValueError", v, <<>>)

\* line 78: [(style + ' ' + k, v) for k, v in result]
RECURSIVE ApplyStyleFast(_, _)
ApplyStyleFast(st, items) ==
    IF items = <<>> THEN Ok(<<>>)
    ELSE LET u == Unpack2(Head(items))
         IN  IF u.exc # "" THEN u
             ELSE IF ~isinstance_str(u.x[1]) THEN Err("TypeError")
             ELSE LET rest == ApplyStyleFast(st, Tail(items))
                  IN  IF rest.exc # "" THEN rest
                      ELSE Ok(<<PyTuple(<<PyStr(st \o <<" ">> \o u.x[1].s), u.x[2]>>)>> \o rest.x)

\* ApplyStyleSlow with a fault: (style + ' ' + item[0], item[1]), the trailing fields lost
RECURSIVE ApplyStyleSlow_DropsTrailing(_, _)
ApplyStyleSlow_DropsTrailing(st, items) ==
    IF items = <<>> THEN Ok(<<>>)
    ELSE LET k == GetItem(Head(items), 0)
             v == GetItem(Head(items), 1)
         IN  IF k.exc # "" THEN k
             ELSE IF ~isinstance_str(k.x) THEN Err("TypeError")
             ELSE IF v.exc # "" THEN v
             ELSE LET rest == ApplyStyleSlow_DropsTrailing(st, Tail(items))
                  IN  IF rest.exc # "" THEN rest
                      ELSE Ok(<<PyTuple(<<PyStr(st \o <<" ">> \o k.x.s), v.x>>)>> \o rest.x)

\* line 85: [(style + ' ' + item[0], ) + item[1:] for item in result]
RECURSIVE ApplyStyleSlow(_, _)
ApplyStyleSlow(st, items) ==
    IF items = <<>> THEN Ok(<<>>)
    ELSE LET item == Head(items)
             k == GetItem(item, 0)
             tl == Slice1(item)
         IN  IF k.exc # "" THEN k
             ELSE IF ~isinstance_str(k.x) THEN Err("TypeError")
             ELSE IF tl.exc # "" THEN tl
             ELSE IF tl.x.kind # "tuple" THEN Err("TypeError")
             ELSE LET rest == ApplyStyleSlow(st, Tail(items))
                  IN  IF rest.exc # "" THEN rest
                      ELSE Ok(<<PyTuple(<<PyStr(st \o <<" ">> \o k.x.s)>> \o tl.x.items)>> \o rest.x)

\* lines 76-85: the try / except ValueError around the two comprehensions
ApplyStyle(st, result) ==
    LET it == Iter(result)
        fast == ApplyStyleFast(st, it.x)
        done == IF fast.exc = "ValueError" THEN ApplyStyleSlow(st, it.x) ELSE fast
    IN  IF it.exc # "" THEN it
        ELSE IF done.exc # "" THEN done
        ELSE Ok(PyList(NewId, done.x))

\* Wrap with a fault: any list is returned as it is, without the copy
Wrap_Alias(result) ==
    IF isinstance_list(result) THEN Ok(result)
    ELSE LET it == Iter(result)
         IN  IF it.exc # "" THEN it ELSE Ok(FormattedText(NewId, it.x))

\* lines 90-93: return result if it is a FormattedText, else FormattedText(result)
Wrap(result) ==
    IF isinstance_FormattedText(result) THEN Ok(result)
    ELSE LET it == Iter(result)
         IN  IF it.exc # "" THEN it ELSE Ok(FormattedText(NewId, it.x))

RECURSIVE to_formatted_text(_, _, _)
to_formatted_text(v, st, ac) ==
    IF v.kind # "None" /\ ~isinstance_str(v) /\ ~isinstance_list(v)
       /\ ~hasattr_pt_formatted_text(v) /\ callable(v)
    THEN LET r == to_formatted_text(Call(v), st, FALSE)
         IN  [r EXCEPT !.calls = <<v>> \o @]
    ELSE LET d == Dispatch(v, ac)
             styled == IF st # <<>> THEN ApplyStyle(st, d.val) ELSE Ok(d.val)
             wrapped == Wrap(styled.x)
         IN  IF d.exc # "" THEN d
             ELSE IF styled.exc # "" THEN Raise(styled.exc, None, d.calls)
             ELSE IF wrapped.exc # "" THEN Raise(wrapped.exc, None, d.calls)
             ELSE Return(wrapped.x, d.calls)

---------------------------------------------------------------------------
(* Template *)

\* sub in s
Contains(s, sub) ==
    \E i \in 1..(Len(s) - Len(sub) + 1) : SubSeq(s, i, i + Len(sub) - 1) = sub

\* line 137: assert '{0}' not in text
Template_init(t) == ~Contains(t, <<"{", "0", "}">>)

\* line 143: self.text.split('{}')
RECURSIVE split(_)
split(s) ==
    IF ~Contains(s, <<"{", "}">>) THEN <<s>>
    ELSE LET i == CHOOSE k \in 1..(Len(s) - 1) :
                    /\ SubSeq(s, k, k + 1) = <<"{", "}">>
                    /\ \A j \in 1..(k - 1) : SubSeq(s, j, j + 1) # <<"{", "}">>
         IN  <<SubSeq(s, 1, i - 1)>> \o split(SubSeq(s, i + 2, Len(s)))

\* interleave with a fault: the final result.append(('', parts[-1])) is missing
RECURSIVE interleave_NoTail(_, _, _)
interleave_NoTail(parts, values, i) ==
    IF i > Len(values) THEN Return(FormattedText(NewId, <<>>), <<>>)
    ELSE LET n == to_formatted_text(values[i], <<>>, FALSE)
             rest == interleave_NoTail(parts, values, i + 1)
         IN  IF n.exc # "" THEN n
             ELSE IF rest.exc # "" THEN [rest EXCEPT !.calls = n.calls \o @]
             ELSE Return(FormattedText(NewId,
                            <<PyTuple(<<PyStr(<<>>), PyStr(parts[i])>>)>>
                                \o n.val.items \o rest.val.items),
                         n.calls \o rest.calls)

\* lines 146-151: the loop over zip(parts, values) from its i-th round on,
\* and the final append of parts[-1]
RECURSIVE interleave(_, _, _)
interleave(parts, values, i) ==
    IF i > Len(values)
    THEN Return(FormattedText(NewId, <<PyTuple(<<PyStr(<<>>), PyStr(parts[Len(parts)])>>)>>), <<>>)
    ELSE LET n == to_formatted_text(values[i], <<>>, FALSE)
             rest == interleave(parts, values, i + 1)
         IN  IF n.exc # "" THEN n
             ELSE IF rest.exc # "" THEN [rest EXCEPT !.calls = n.calls \o @]
             ELSE Return(FormattedText(NewId,
                            <<PyTuple(<<PyStr(<<>>), PyStr(parts[i])>>)>>
                                \o n.val.items \o rest.val.items),
                         n.calls \o rest.calls)

\* get_result with a fault: the arity assert comes after the loop
get_result_LateAssert(t, values) ==
    LET parts == split(t)
        paired == IF Len(values) < Len(parts) THEN values ELSE SubSeq(values, 1, Len(parts))
        r == interleave(parts, paired, 1)
    IN  IF r.exc # "" THEN r
        ELSE IF Len(parts) - 1 # Len(values) THEN Raise("AssertionError", None, r.calls)
        ELSE r

\* lines 141-151: the producer Template.format returns, on a template text t
get_result(t, values) ==
    LET parts == split(t)
    IN  IF Len(parts) - 1 # Len(values) THEN Raise("AssertionError", None, <<>>)
        ELSE interleave(parts, values, 1)

\* lines 140-152: what format returns
Closure(t, values) == [kind |-> "get_result", text |-> t, values |-> values]

---------------------------------------------------------------------------
(* merge_formatted_text *)

\* merge_loop with a fault: result.append(...) where the code has result.extend(...)
RECURSIVE merge_loop_Append(_, _)
merge_loop_Append(items, i) ==
    IF i > Len(items) THEN [out |-> Return(FormattedText(NewId, <<>>), <<>>), taken |-> 0]
    ELSE LET n == to_formatted_text(items[i], <<>>, FALSE)
             rest == merge_loop_Append(items, i + 1)
         IN  IF n.exc # "" THEN [out |-> n, taken |-> 1]
             ELSE IF rest.out.exc # ""
             THEN [out |-> [rest.out EXCEPT !.calls = n.calls \o @], taken |-> rest.taken + 1]
             ELSE [out |-> Return(FormattedText(NewId, <<n.val>> \o rest.out.val.items),
                                  n.calls \o rest.out.calls),
                   taken |-> rest.taken + 1]

\* lines 160-163: the loop over items from its i-th element on; taken: how
\* many elements the loop drew from the iterable
RECURSIVE merge_loop(_, _)
merge_loop(items, i) ==
    IF i > Len(items) THEN [out |-> Return(FormattedText(NewId, <<>>), <<>>), taken |-> 0]
    ELSE LET n == to_formatted_text(items[i], <<>>, FALSE)
             rest == merge_loop(items, i + 1)
         IN  IF n.exc # "" THEN [out |-> n, taken |-> 1]
             ELSE IF rest.out.exc # ""
             THEN [out |-> [rest.out EXCEPT !.calls = n.calls \o @], taken |-> rest.taken + 1]
             ELSE [out |-> Return(FormattedText(NewId, n.val.items \o rest.out.val.items),
                                  n.calls \o rest.out.calls),
                   taken |-> rest.taken + 1]

\* lines 155-165: what merge_formatted_text returns; reiterable: items is a list
\* (iterated afresh each time) and not a generator (iterated once)
MergeClosure(items, reiterable) ==
    [kind |-> "_merge_formatted_text", items |-> items, reiterable |-> reiterable]

\* lines 159-163: the items `for i in items` still yields
Remaining(c) ==
    IF c.reiterable THEN c.items ELSE SubSeq(c.items, consumed + 1, Len(c.items))

_merge_formatted_text(c) == merge_loop(Remaining(c), 1)

---------------------------------------------------------------------------
(* The inputs of to_formatted_text. *)
bold == <<"b", "o", "l", "d">>
Styles == {<<>>, bold}

Runs ==
    { PyTuple(<<PyStr(<<>>), PyStr(<<"x">>)>>),
      PyTuple(<<PyStr(<<"u">>), PyStr(<<"y">>)>>),
      PyTuple(<<PyStr(<<"u">>), PyStr(<<"x">>), Handler>>),
      PyTuple(<<PyStr(<<>>), PyStr(<<"y">>), Handler>>),
      PyTuple(<<PyInt(1), PyStr(<<"x">>)>>),
      PyTuple(<<PyStr(<<"u">>), None>>) }

RunSeqs == UNION {[1..n -> Runs] : n \in 0..MaxLen}
Lists == {PyList(CallerId, r) : r \in RunSeqs} \cup {FormattedText(CallerId, r) : r \in RunSeqs}
Leaves == {None, PyStr(<<>>), PyStr(<<"h", "i">>), PyInt(0), PyInt(42), PyInt(-7)} \cup Lists

RECURSIVE Nested(_)
Nested(n) ==
    IF n = 0 THEN Leaves
    ELSE LET inner == Nested(n - 1)
         IN  {Magic(v) : v \in inner} \cup {Callable(v) : v \in inner}

Values == UNION {Nested(n) : n \in 0..MaxDepth}

NotCalled == Return(None, <<>>)

---------------------------------------------------------------------------
(* Spec: one call of to_formatted_text on every input of the universe. *)
Init ==
    /\ pc = "start"
    /\ value \in Values
    /\ style \in Styles
    /\ auto_convert \in BOOLEAN
    /\ outcome = NotCalled
    /\ text = <<>>
    /\ closure = None
    /\ clock = 0
    /\ consumed = 0

Normalize ==
    /\ pc = "start"
    /\ pc' = "to_formatted_text"
    /\ outcome' = to_formatted_text(value, style, auto_convert)
    /\ UNCHANGED <<value, style, auto_convert, text, closure, clock, consumed>>

Next == Normalize

Spec == Init /\ [][Next]_vars

Called == pc = "to_formatted_text"

---------------------------------------------------------------------------
(* SpecTemplate: one Template, formatted and invoked while the environment *)
(* its producer arguments read changes.                                    *)
TemplateTexts ==
    { <<>>,
      <<"a">>,
      <<"{", "}">>,
      <<"a", "{", "}", "b">>,
      <<"a", "{", "}", "b", "{", "}", "c">>,
      <<"{", "}", "{", "}">>,
      <<"{", "{", "}", "}">>,
      <<"{", "0", "}">> }

Samples ==
    { PyStr(<<"x">>),
      Callable(FormattedText(CallerId,
                 <<PyTuple(<<PyStr(<<"u">>), PyStr(<<"y">>)>>),
                   PyTuple(<<PyStr(<<>>), PyStr(<<"x">>), Handler>>)>>)),
      ClockFn,
      PyInt(42),
      Magic(None) }

ArgSeqs == UNION {[1..n -> Samples] : n \in 0..MaxArgs}
ItemSeqs == UNION {[1..n -> Samples] : n \in 0..MaxItems}

InitTemplate ==
    /\ pc = "Template"
    /\ text \in {t \in TemplateTexts : Template_init(t)}
    /\ closure = None
    /\ clock = 0
    /\ outcome = NotCalled
    /\ value = None
    /\ style = <<>>
    /\ auto_convert = FALSE
    /\ consumed = 0

Format(values) ==
    /\ pc' = "format"
    /\ closure' = Closure(text, values)
    /\ outcome' = Return(closure', <<>>)
    /\ UNCHANGED <<value, style, auto_convert, text, clock, consumed>>

GetResult ==
    /\ closure # None
    /\ pc' = "get_result"
    /\ outcome' = get_result(closure.text, closure.values)
    /\ UNCHANGED <<value, style, auto_convert, text, closure, clock, consumed>>

Tick ==
    /\ clock < MaxClock
    /\ clock' = clock + 1
    /\ pc' = "tick"
    /\ UNCHANGED <<value, style, auto_convert, text, closure, outcome, consumed>>

NextTemplate ==
    \/ \E values \in ArgSeqs : Format(values)
    \/ GetResult
    \/ Tick

SpecTemplate == InitTemplate /\ [][NextTemplate]_vars

---------------------------------------------------------------------------
(* SpecMerge: merge_formatted_text over a list or a generator of items.    *)
InitMerge ==
    /\ pc = "start"
    /\ closure = None
    /\ clock = 0
    /\ consumed = 0
    /\ outcome = NotCalled
    /\ value = None
    /\ style = <<>>
    /\ auto_convert = FALSE
    /\ text = <<>>

Merge(items, reiterable) ==
    /\ pc' = "merge_formatted_text"
    /\ closure' = MergeClosure(items, reiterable)
    /\ consumed' = 0
    /\ outcome' = Return(closure', <<>>)
    /\ UNCHANGED <<value, style, auto_convert, text, clock>>

InvokeMerge ==
    /\ closure # None
    /\ pc' = "_merge_formatted_text"
    /\ LET r == _merge_formatted_text(closure)
       IN  /\ outcome' = r.out
           /\ consumed' = IF closure.reiterable THEN consumed ELSE consumed + r.taken
    /\ UNCHANGED <<value, style, auto_convert, text, closure, clock>>

NextMerge ==
    \/ \E items \in ItemSeqs, reiterable \in BOOLEAN : Merge(items, reiterable)
    \/ InvokeMerge
    \/ Tick

SpecMerge == InitMerge /\ [][NextMerge]_vars

---------------------------------------------------------------------------
(* Notions the properties of to_formatted_text are stated with. *)

\* a (style, text) or (style, text, handler) tuple with string style and text
WellFormedRun(r) ==
    /\ r.kind = "tuple"
    /\ Len(r.items) \in {2, 3}
    /\ r.items[1].kind = "str"
    /\ r.items[2].kind = "str"

AllWellFormed(items) == \A i \in 1..Len(items) : WellFormedRun(items[i])

\* st prefixed once to the style of every run, the other fields kept
Prefixed(st, items) ==
    IF st = <<>> THEN items
    ELSE [i \in 1..Len(items) |->
            PyTuple(<<PyStr(st \o <<" ">> \o items[i].items[1].s)>> \o Tail(items[i].items))]

DigitValue(c) ==
    CASE c = "0" -> 0 [] c = "1" -> 1 [] c = "2" -> 2 [] c = "3" -> 3 [] c = "4" -> 4
      [] c = "5" -> 5 [] c = "6" -> 6 [] c = "7" -> 7 [] c = "8" -> 8 [] c = "9" -> 9

RECURSIVE ParseNat(_)
ParseNat(s) ==
    IF s = <<>> THEN 0
    ELSE ParseNat(SubSeq(s, 1, Len(s) - 1)) * 10 + DigitValue(s[Len(s)])

\* int(s) of a canonical decimal numeral; -1000 stands for "not a numeral"
ParseInt(s) ==
    LET digits == IF s # <<>> /\ s[1] = "-" THEN Tail(s) ELSE s
        numeral == /\ digits # <<>>
                   /\ \A i \in 1..Len(digits) :
                        digits[i] \in {"0", "1", "2", "3", "4", "5", "6", "7", "8", "9"}
                   /\ (Len(digits) > 1 => digits[1] # "0")
    IN  IF ~numeral THEN -1000
        ELSE IF digits # s THEN 0 - ParseNat(digits) ELSE ParseNat(digits)

\* the sequence object the call ends up holding: what the producer chain
\* returns and, for a self-describing object, what its conversion returns
RECURSIVE Held(_)
Held(v) ==
    IF callable(v) THEN Held(Call(v))
    ELSE IF hasattr_pt_formatted_text(v) THEN v.ret
    ELSE v

---------------------------------------------------------------------------
(* C1: for an object o whose __pt_formatted_text__() returns v, whatever   *)
(* accepted shape v has, to_formatted_text(o, style=s) equals              *)
(* to_formatted_text(v) with s prefixed to every run exactly once.         *)
C1_SelfDescribingResolution ==
    (Called /\ hasattr_pt_formatted_text(value)) =>
        LET inner == to_formatted_text(value.ret, <<>>, FALSE)
        IN  (inner.exc = "" /\ AllWellFormed(inner.val.items)) =>
                /\ outcome.exc = ""
                /\ outcome.val.items = Prefixed(style, inner.val.items)

(* C2: for a producer p returning v, to_formatted_text(p, s, auto_convert) *)
(* has the outcome of to_formatted_text(v, s, auto_convert): the same runs *)
(* or the same kind of failure.                                            *)
C2_ProducerResolution ==
    (Called /\ callable(value)) =>
        LET direct == to_formatted_text(Call(value), style, auto_convert)
        IN  /\ outcome.exc = direct.exc
            /\ direct.exc = "" => outcome.val.items = direct.val.items

(* C3: whenever to_formatted_text returns, the result is a FormattedText   *)
(* every element of which is a run with string style and string text.      *)
C3_CanonicalForm ==
    (Called /\ outcome.exc = "") =>
        /\ isinstance_FormattedText(outcome.val)
        /\ AllWellFormed(outcome.val.items)

(* C4: for a list R of well-formed 2-field and 3-field runs and a          *)
(* non-empty style s, the result has the length and order of R, run i has  *)
(* style s + ' ' + R[i].style, the same text and the same trailing handler *)
(* if any; with an empty style every run is unchanged.                     *)
C4_StylePrefixing ==
    (Called /\ isinstance_list(value) /\ AllWellFormed(value.items)) =>
        /\ outcome.exc = ""
        /\ Len(outcome.val.items) = Len(value.items)
        /\ \A i \in 1..Len(value.items) :
            LET old == value.items[i].items
                new == outcome.val.items[i]
            IN  /\ new.kind = "tuple"
                /\ Len(new.items) = Len(old)
                /\ new.items[1] = IF style = <<>> THEN old[1]
                                  ELSE PyStr(style \o <<" ">> \o old[1].s)
                /\ \A j \in 2..Len(old) : new.items[j] = old[j]

C4_Witness ==
    /\ Called
    /\ isinstance_list(value)
    /\ AllWellFormed(value.items)
    /\ \E i, j \in 1..Len(value.items) :
        Len(value.items[i].items) = 2 /\ Len(value.items[j].items) = 3
    /\ style # <<>>
    /\ outcome.exc = ""

(* C5 as stated: the result is the input object when the input is a        *)
(* FormattedText and style is empty, and in every other case a newly       *)
(* constructed sequence that aliases no caller-owned one.                  *)
C5_FreshUnlessCanonicalInput ==
    (Called /\ outcome.exc = "") =>
        IF isinstance_FormattedText(value) /\ style = <<>>
        THEN outcome.val = value
        ELSE outcome.val.id = NewId

(* C5 amended: the result is the very object the call holds (the input,    *)
(* or what the producer chain or the self-describing conversion returned)  *)
(* when that object is a FormattedText and style is empty, with its items  *)
(* as they were; in every other case it is a newly constructed             *)
(* FormattedText.                                                          *)
C5_FreshUnlessCanonicalHeld ==
    (Called /\ outcome.exc = "") =>
        /\ isinstance_FormattedText(outcome.val)
        /\ IF isinstance_FormattedText(Held(value)) /\ style = <<>>
           THEN outcome.val = Held(value)
           ELSE outcome.val.id = NewId

C5_Witness ==
    /\ Called
    /\ callable(value)
    /\ style = <<>>
    /\ outcome.exc = ""
    /\ outcome.val.id = CallerId
    /\ Len(outcome.val.items) > 0

C7_MalformedFirstRun ==
    (Called /\ isinstance_list(value)) =>
        IF value.items = <<>>
        THEN outcome.exc = "" /\ outcome.val.items = <<>>
        ELSE LET first == value.items[1].items
             IN  IF first[1].kind # "str"
                 THEN outcome.exc = "AssertionError" /\ outcome.about = first[1]
                 ELSE IF first[2].kind # "str"
                 THEN outcome.exc = "AssertionError" /\ outcome.about = first[2]
                 ELSE outcome.exc # "AssertionError"

C7_Witness ==
    /\ Called
    /\ isinstance_list(value)
    /\ Len(value.items) = 2
    /\ ~WellFormedRun(value.items[1])
    /\ WellFormedRun(value.items[2])
    /\ style # <<>>
    /\ auto_convert
    /\ outcome.exc = "AssertionError"

---------------------------------------------------------------------------
(* Notions the properties of Template and merge_formatted_text are stated with. *)

\* the number of '{}' markers of a template text
Markers(t) == Cardinality({i \in 1..(Len(t) - 1) : t[i] = "{" /\ t[i + 1] = "}"})

\* sep.join(parts) for sep = '{}'
RECURSIVE Join(_)
Join(parts) ==
    IF Len(parts) = 1 THEN parts[1]
    ELSE parts[1] \o <<"{", "}">> \o Join(Tail(parts))

\* to_formatted_text of each of the values, now
NormalizedNow(values) == [k \in 1..Len(values) |-> to_formatted_text(values[k], <<>>, FALSE)]

\* the runs of norm[1], ..., norm[k], counted
RECURSIVE RunsUpTo(_, _)
RunsUpTo(norm, k) == IF k = 0 THEN 0 ELSE RunsUpTo(norm, k - 1) + Len(norm[k].val.items)

Failing(norm) == {k \in 1..Len(norm) : norm[k].exc # ""}
FirstFailing(norm) == CHOOSE k \in Failing(norm) : \A j \in Failing(norm) : k <= j

(* C8: with N markers and N arguments, every invocation of the producer    *)
(* format returned yields ('', segment_0), the runs of arg_0,              *)
(* ('', segment_1), ..., the runs of arg_N-1, ('', segment_N), each         *)
(* argument normalized at that invocation; format evaluates no argument.   *)
C8_TemplateInterleaving ==
    /\ pc = "format" =>
        outcome.exc = "" /\ outcome.val = closure /\ outcome.calls = <<>>
    /\ (pc = "get_result" /\ Markers(closure.text) = Len(closure.values)) =>
        LET N == Len(closure.values)
            norm == NormalizedNow(closure.values)
            items == outcome.val.items
            \* where segment k stands: after k - 1 segments and the runs of k - 1 arguments
            at(k) == k + RunsUpTo(norm, k - 1)
            segment == [k \in 1..(N + 1) |-> items[at(k)].items[2].s]
        IN  IF Failing(norm) # {}
            THEN outcome.exc = norm[FirstFailing(norm)].exc
            ELSE /\ outcome.exc = ""
                 /\ isinstance_FormattedText(outcome.val)
                 /\ outcome.val.id = NewId
                 /\ Len(items) = N + 1 + RunsUpTo(norm, N)
                 /\ \A k \in 1..(N + 1) :
                        /\ Len(items[at(k)].items) = 2
                        /\ items[at(k)].items[1] = PyStr(<<>>)
                        /\ items[at(k)].items[2].kind = "str"
                        /\ ~Contains(segment[k], <<"{", "}">>)
                 /\ Join(segment) = closure.text
                 /\ \A k \in 1..N : \A i \in 1..Len(norm[k].val.items) :
                        items[at(k) + i] = norm[k].val.items[i]

C8_Witness ==
    /\ pc = "get_result"
    /\ Len(closure.values) = 2
    /\ Markers(closure.text) = 2
    /\ closure.values[1].kind = "callable"
    /\ closure.values[2] = ClockFn
    /\ clock > 0
    /\ outcome.exc = ""

(* C9 as stated: format called with a number of arguments different from   *)
(* the number of markers raises the contract violation at that format      *)
(* call, before any argument is normalized.                                *)
C9_ArityAtFormat ==
    (pc = "format" /\ Markers(closure.text) # Len(closure.values)) =>
        outcome.exc = "AssertionError" /\ outcome.calls = <<>>

(* C9 amended: format itself returns the producer without raising; the     *)
(* contract violation is raised when that producer is invoked, before any  *)
(* interleaving: no argument normalized, no producer argument invoked, no  *)
(* partial result.                                                         *)
C9_ArityAtInvocation ==
    /\ (pc = "format" /\ Markers(closure.text) # Len(closure.values)) =>
        outcome.exc = "" /\ outcome.val = closure /\ outcome.calls = <<>>
    /\ (pc = "get_result" /\ Markers(closure.text) # Len(closure.values)) =>
        outcome.exc = "AssertionError" /\ outcome.val = None /\ outcome.calls = <<>>

C9_Witness ==
    /\ pc = "get_result"
    /\ Markers(closure.text) = 1
    /\ Len(closure.values) = 2
    /\ \E k \in 1..2 : callable(closure.values[k])
    /\ outcome.exc = "AssertionError"

C10_Now ==
    /\ pc = "merge_formatted_text" =>
        outcome.exc = "" /\ outcome.val = closure /\ outcome.calls = <<>> /\ consumed = 0
    /\ (pc = "_merge_formatted_text" /\ closure.reiterable) =>
        LET N == Len(closure.items)
            norm == NormalizedNow(closure.items)
            items == outcome.val.items
        IN  IF Failing(norm) # {}
            THEN outcome.exc = norm[FirstFailing(norm)].exc
            ELSE /\ outcome.exc = ""
                 /\ isinstance_FormattedText(outcome.val)
                 /\ outcome.val.id = NewId
                 /\ Len(items) = RunsUpTo(norm, N)
                 /\ \A k \in 1..N : \A i \in 1..Len(norm[k].val.items) :
                        items[RunsUpTo(norm, k - 1) + i] = norm[k].val.items[i]
    /\ (pc = "_merge_formatted_text" /\ ~closure.reiterable /\ outcome.exc = "") =>
        consumed = Len(closure.items)

C10_Again ==
    (pc = "_merge_formatted_text" /\ pc' = "_merge_formatted_text" /\ closure.reiterable) =>
        outcome' = outcome

(* C10: merge_formatted_text traverses nothing when called; each           *)
(* invocation of the producer traverses items fully and returns the runs   *)
(* of item_1, item_2, ... concatenated in iteration order, nothing         *)
(* reordered, dropped or restyled; over a re-iterable whose elements do    *)
(* not change, an invocation repeated gives the identical result.          *)
C10_MergeConcatenation == [](C10_Now) /\ [][C10_Again]_vars

C10_Witness ==
    /\ pc = "_merge_formatted_text"
    /\ closure.reiterable
    /\ Len(closure.items) = 2
    /\ closure.items[1] = ClockFn
    /\ closure.items[2].kind = "callable"
    /\ clock > 0
    /\ outcome.exc = ""
    /\ Len(outcome.val.items) = 3

====
